---- MODULE Spec2Model ----
(***************************************************************************)
(* Model of lfp_logging: the lazily configured logger of logs.py           *)
(* (_LazyLogger.handle, logger, _logging_basic_config and the level        *)
(* resolution it calls) and the level parser of log_level.py (get).        *)
(*                                                                         *)
(* Python values are tagged records: PyNone, PyInt(n), PyStr(s) with s a   *)
(* sequence of one-character strings, LogLevel(name, level).  A raised     *)
(* ValueError is the value Raised.                                         *)
(***************************************************************************)
EXTENDS Integers, Sequences, FiniteSets, TLC

\* ------------------------------------------------------------- bounds
MaxThreads == 2
\* _LazyLogger objects that logger() may allocate
MaxLazy == 2
\* Logger.log / Logger.isEnabledFor calls the application makes
MaxEmits == 2
\* logging.basicConfig calls the application makes
MaxConfigure == 1
\* largest integer handed to the level parser
MaxLevelNo == 51

\* ------------------------------------------------------ Python values
PyNone == [t |-> "none"]
PyInt(n) == [t |-> "int", n |-> n]
PyStr(s) == [t |-> "str", s |-> s]
LogLevel(name, level) == [t |-> "LogLevel", name |-> name, level |-> level]
Raised == [t |-> "ValueError"]
_UNSET == [t |-> "unset"]

\* ------------------------------------------------------------ strings
DigitChars == {"0", "1", "2", "3", "4", "5", "6", "7", "8", "9"}
\* "sup2" stands for the one character U+00B2 (superscript two): str.isdigit
\* accepts it and int() rejects it.
SuperscriptTwo == "sup2"

DigitVal(c) ==
    CASE c = "0" -> 0 [] c = "1" -> 1 [] c = "2" -> 2 [] c = "3" -> 3
      [] c = "4" -> 4 [] c = "5" -> 5 [] c = "6" -> 6 [] c = "7" -> 7
      [] c = "8" -> 8 [] c = "9" -> 9

DigitChar(d) ==
    CASE d = 0 -> "0" [] d = 1 -> "1" [] d = 2 -> "2" [] d = 3 -> "3"
      [] d = 4 -> "4" [] d = 5 -> "5" [] d = 6 -> "6" [] d = 7 -> "7"
      [] d = 8 -> "8" [] d = 9 -> "9"

LowerChars ==
    <<"a", "b", "c", "d", "e", "f", "g", "h", "i", "j", "k", "l", "m",
      "n", "o", "p", "q", "r", "s", "t", "u", "v", "w", "x", "y", "z">>

UpperChars ==
    <<"A", "B", "C", "D", "E", "F", "G", "H", "I", "J", "K", "L", "M",
      "N", "O", "P", "Q", "R", "S", "T", "U", "V", "W", "X", "Y", "Z">>

Range(f) == {f[i] : i \in DOMAIN f}

IndexOf(seq, c) == CHOOSE i \in DOMAIN seq : seq[i] = c

\* str.upper, one character
UpperChar(c) ==
    IF c \in Range(LowerChars) THEN UpperChars[IndexOf(LowerChars, c)] ELSE c

\* str.casefold, one character (ASCII)
FoldChar(c) ==
    IF c \in Range(UpperChars) THEN LowerChars[IndexOf(UpperChars, c)] ELSE c

upper(s) == [i \in DOMAIN s |-> UpperChar(s[i])]

casefold(s) == [i \in DOMAIN s |-> FoldChar(s[i])]

isdigit_Never(s) == FALSE
\* str.isdigit: non-empty and every character a digit character
isdigit(s) ==
    Len(s) > 0 /\ \A i \in DOMAIN s : s[i] \in DigitChars \cup {SuperscriptTwo}

\* whether int(s) parses: here s is a string for which isdigit holds
IntParses(s) == \A i \in DOMAIN s : s[i] \in DigitChars

RECURSIVE IntOf(_)
\* int(s) for a string of decimal digits
IntOf(s) ==
    IF Len(s) = 0 THEN 0
    ELSE 10 * IntOf(SubSeq(s, 1, Len(s) - 1)) + DigitVal(s[Len(s)])

RECURSIVE StrOfNat(_)
StrOfNat(n) ==
    IF n < 10 THEN <<DigitChar(n)>>
    ELSE Append(StrOfNat(n \div 10), DigitChar(n % 10))

\* str(n) of an integer
StrOfInt(n) == IF n < 0 THEN <<"-">> \o StrOfNat(-n) ELSE StrOfNat(n)

startswith(s, prefix) ==
    Len(s) >= Len(prefix) /\ SubSeq(s, 1, Len(prefix)) = prefix

\* ------------------------------------------- the logging level tables
\* logging._nameToLevel of the standard library
_nameToLevel ==
    (<<"C", "R", "I", "T", "I", "C", "A", "L">> :> 50)
    @@ (<<"F", "A", "T", "A", "L">> :> 50)
    @@ (<<"E", "R", "R", "O", "R">> :> 40)
    @@ (<<"W", "A", "R", "N">> :> 30)
    @@ (<<"W", "A", "R", "N", "I", "N", "G">> :> 30)
    @@ (<<"I", "N", "F", "O">> :> 20)
    @@ (<<"D", "E", "B", "U", "G">> :> 10)
    @@ (<<"N", "O", "T", "S", "E", "T">> :> 0)

\* logging._levelToName of the standard library
_levelToName ==
    (50 :> <<"C", "R", "I", "T", "I", "C", "A", "L">>)
    @@ (40 :> <<"E", "R", "R", "O", "R">>)
    @@ (30 :> <<"W", "A", "R", "N", "I", "N", "G">>)
    @@ (20 :> <<"I", "N", "F", "O">>)
    @@ (10 :> <<"D", "E", "B", "U", "G">>)
    @@ (0 :> <<"N", "O", "T", "S", "E", "T">>)

_LOG_LEVEL_NAME_NO_MATCH_PREFIX == <<"L", "e", "v", "e", "l", " ">>

\* logging.getLevelName: the name of a number, the number of a name, and
\* "Level <x>" for anything else
getLevelName(level) ==
    IF level.t = "int" /\ level.n \in DOMAIN _levelToName
    THEN PyStr(_levelToName[level.n])
    ELSE IF level.t = "str" /\ level.s \in DOMAIN _nameToLevel
    THEN PyInt(_nameToLevel[level.s])
    ELSE PyStr(_LOG_LEVEL_NAME_NO_MATCH_PREFIX
               \o (IF level.t = "int" THEN StrOfInt(level.n) ELSE level.s))

\* ------------------------------------------------ log_level.py: get
RECURSIVE get(_, _)
get(value, default_value) ==
    LET not_found ==
            IF default_value = PyNone THEN PyNone
            ELSE IF default_value = _UNSET THEN Raised
            ELSE get(default_value, _UNSET)
    IN  IF value = PyNone THEN not_found
        ELSE IF value.t = "int"
        THEN LET level_name == getLevelName(value)
             IN  IF level_name.t = "str" /\ Len(level_name.s) > 0
                    /\ ~startswith(level_name.s, _LOG_LEVEL_NAME_NO_MATCH_PREFIX)
                 THEN LogLevel(level_name.s, value.n)
                 ELSE not_found
        ELSE IF Len(value.s) = 0 THEN not_found
        ELSE LET level_name == upper(value.s)
                 level_no == getLevelName(PyStr(level_name))
             IN  IF level_no.t = "int" THEN LogLevel(level_name, level_no.n)
                 ELSE IF isdigit(level_name)
                 THEN IF IntParses(level_name)
                      THEN get(PyInt(IntOf(level_name)), default_value)
                      ELSE Raised
                 ELSE not_found

\* ------------------------------------------------- logs.py: log_level
RECURSIVE log_level(_)
log_level(value) ==
    IF value = PyNone THEN PyNone
    ELSE IF value.t = "int"
    THEN LET level_name == getLevelName(value)
         IN  IF level_name.t = "str" /\ Len(level_name.s) > 0
                /\ ~startswith(level_name.s, _LOG_LEVEL_NAME_NO_MATCH_PREFIX)
             THEN LogLevel(level_name.s, value.n)
             ELSE PyNone
    ELSE IF Len(value.s) = 0 THEN PyNone
    ELSE LET level_name == upper(value.s)
             level_no == getLevelName(PyStr(level_name))
         IN  IF level_no.t = "int" THEN LogLevel(level_name, level_no.n)
             ELSE IF isdigit(level_name)
             THEN IF IntParses(level_name)
                  THEN log_level(PyInt(IntOf(level_name)))
                  ELSE Raised
             ELSE PyNone

PyBool(b) == [t |-> "bool", b |-> b]

_BOOL_VALUES ==
    [b \in BOOLEAN |->
        IF b THEN {<<"t", "r", "u", "e">>, <<"y", "e", "s">>, <<"o", "n">>, <<"1">>}
        ELSE {<<"f", "a", "l", "s", "e">>, <<"n", "o">>, <<"o", "f", "f">>, <<"0">>}]

\* logs.py _parse_bool, for the None and str values os.environ.get returns
_parse_bool(value) ==
    IF value = PyNone THEN PyNone
    ELSE IF Len(value.s) > 0 /\ casefold(value.s) \in _BOOL_VALUES[FALSE]
    THEN PyBool(FALSE)
    ELSE IF Len(value.s) > 0 /\ casefold(value.s) \in _BOOL_VALUES[TRUE]
    THEN PyBool(TRUE)
    ELSE PyNone

LOG_LEVEL_SYS_ARG_NAME ==
    <<"-", "-", "l", "o", "g", "-", "l", "e", "v", "e", "l">>

RECURSIVE SysArgValue(_, _, _)
\* the loop of _parse_log_level_sys_args over sys.argv[1:], from the 1-based
\* position idx on, with the value found so far
SysArgValue(argv, idx, value) ==
    IF idx > Len(argv) THEN value
    ELSE IF argv[idx] = LOG_LEVEL_SYS_ARG_NAME
    THEN SysArgValue(argv, idx + 1,
                     IF idx < Len(argv) THEN PyStr(argv[idx + 1]) ELSE PyNone)
    ELSE SysArgValue(argv, idx + 1, value)

_parse_log_level_sys_args(argv, environ) ==
    IF _parse_bool(environ.LOG_LEVEL_PARSE_SYS_ARGS) = PyBool(FALSE) THEN PyNone
    ELSE log_level(SysArgValue(argv, 2, PyNone))

_parse_log_level_environ(environ) ==
    IF _parse_bool(environ.LOG_LEVEL_PARSE_ENVIRON) = PyBool(FALSE) THEN PyNone
    ELSE log_level(environ.LOG_LEVEL)

INFO == 20
LOG_LEVEL_DEFAULT == INFO

\* lines 180-183 of _logging_basic_config: the resolved LogLevel, PyNone, or
\* Raised when a parser raised
ResolvedLogLevel(argv, environ) ==
    LET fromArgs == _parse_log_level_sys_args(argv, environ)
    IN  IF fromArgs = PyNone THEN _parse_log_level_environ(environ) ELSE fromArgs

ConfigRaises(argv, environ) == ResolvedLogLevel(argv, environ) = Raised

log_level_no(argv, environ) ==
    LET ll == ResolvedLogLevel(argv, environ)
    IN  IF ll = PyNone THEN LOG_LEVEL_DEFAULT ELSE ll.level

\* ------------------------------------------------------------- sinks
\* A handler: its stream, the threshold of its filter, and the band its
\* filter_fn lets through ("eq" INFO, "ne" INFO, "all" with no filter_fn).
_log_handler(level_no, stream, band) ==
    [stream |-> stream, thr |-> level_no, band |-> band]

DefaultHandlers(level_no) ==
    << _log_handler(level_no, "stdout", "eq"),
       _log_handler(level_no, "stderr", "ne") >>

\* the closure without its threshold test
_filter_NoThreshold(h, levelno) ==
    CASE h.band = "all" -> TRUE
      [] h.band = "eq" -> levelno = INFO
      [] h.band = "ne" -> levelno # INFO

\* the _filter closure of _log_handler
_filter(h, levelno) ==
    IF levelno >= h.thr
    THEN CASE h.band = "all" -> TRUE
           [] h.band = "eq" -> levelno = INFO
           [] h.band = "ne" -> levelno # INFO
    ELSE FALSE

\* a handler the application builds itself: logging.StreamHandler(), no filter
UserHandler(stream) == [stream |-> stream, thr |-> 0, band |-> "all"]

\* the handler logging.basicConfig builds when it is given none
StdHandler == UserHandler("basic")

IsDefaultHandler(h) == h.stream \in {"stdout", "stderr"}

HandlersAfterForce_Always(handlers, force) == <<>>
\* logging.basicConfig, first half: with force the root's handlers are removed
HandlersAfterForce(handlers, force) == IF force THEN <<>> ELSE handlers

\* logging.basicConfig(level=, handlers=, force=) on the root logger:
\* kw.handlers and kw.level are PyNone when the option is absent
basicConfig(rt, kw) ==
    LET kept == HandlersAfterForce(rt.handlers, kw.force)
    IN  IF Len(kept) = 0
        THEN [handlers |-> IF kw.handlers = PyNone THEN <<StdHandler>>
                           ELSE kw.handlers.list,
              level |-> IF kw.level = PyNone THEN rt.level ELSE kw.level.n]
        ELSE [handlers |-> kept, level |-> rt.level]

\* the call at the end of _logging_basic_config
_logging_basic_config(rt, argv, environ) ==
    LET no == log_level_no(argv, environ)
    IN  basicConfig(rt, [level |-> PyInt(no),
                         handlers |-> [t |-> "list", list |-> DefaultHandlers(no)],
                         force |-> FALSE])

\* ------------------------------------------------------------- state
Threads == 1 .. MaxThreads
Names == {"a", "b"}
\* severities of the records the application logs: DEBUG, INFO, ERROR
Severities == {10, 20, 40}

\* References to logger objects.  Reg(n) is the object logging.getLogger
\* creates for the name n and keeps in the manager's loggerDict; LazyRef(i) is
\* the i-th _LazyLogger that logger() built.
NoRef == [k |-> "none", name |-> "", id |-> 0]
Reg(n) == [k |-> "reg", name |-> n, id |-> 0]
LazyRef(i) == [k |-> "lazy", name |-> "", id |-> i]

VARIABLES
    sys_argv,        \* sys.argv
    os_environ,      \* os.environ, the three names logs.py reads
    _INIT_COMPLETE,  \* logs.py global
    _INIT_LOCK,      \* logs.py global: 0 when free, else the holding thread
    root,            \* logging.root: [handlers, level]
    lazies,          \* the _LazyLogger objects: [name, _handler, inv, selfErrs]
    loggerDict,      \* logging.Logger.manager.loggerDict: name -> reference
    pc,              \* per thread: its place in Logger.log / _LazyLogger.handle
    this,            \* per thread: the logger object it is calling
    rec,             \* per thread: the severity of its record
    seenLevel,       \* per thread: the root's level when its log() call began
    role,            \* per thread: how its handle() call relates to the first one
    sunk,            \* the (stream, severity) pairs written so far
    initRuns,        \* how often _logging_basic_config was run
    requests,        \* what logger() returned: [name, obj, post]
    probed,          \* objects on which the application called isEnabledFor
    cfgFirst,        \* what basicConfig left on the root when the application
                     \* called it before _logging_basic_config ever ran
    emits,           \* application calls of log / isEnabledFor so far
    configs,         \* application calls of logging.basicConfig so far
    value,           \* log_level.get: the value argument
    default_value,   \* log_level.get: the default_value argument
    parsed           \* log_level.get: the result (Pending before it returns)

vars == <<sys_argv, os_environ, _INIT_COMPLETE, _INIT_LOCK, root, lazies,
          loggerDict, pc, this, rec, seenLevel, role, sunk, initRuns, requests,
          probed, cfgFirst, emits, configs, value, default_value, parsed>>

loggingVars == <<sys_argv, os_environ, _INIT_COMPLETE, _INIT_LOCK, root, lazies,
                 loggerDict, pc, this, rec, seenLevel, role, sunk, initRuns,
                 requests, probed, cfgFirst, emits, configs>>

parseVars == <<value, default_value, parsed>>

Str_prog == <<"p">>

NoEnviron ==
    [LOG_LEVEL |-> PyNone, LOG_LEVEL_PARSE_ENVIRON |-> PyNone,
     LOG_LEVEL_PARSE_SYS_ARGS |-> PyNone]

\* the command lines and environments the process is started with: nothing
\* set, and "--log-level" followed by the one-character string U+00B2
Launches ==
    { [argv |-> <<Str_prog>>, environ |-> NoEnviron],
      [argv |-> <<Str_prog, LOG_LEVEL_SYS_ARG_NAME, <<SuperscriptTwo>> >>,
       environ |-> NoEnviron] }

\* logging.root as the logging module creates it: RootLogger(WARNING)
RootInit ==
    [handlers |-> <<>>, level |-> _nameToLevel[<<"W", "A", "R", "N", "I", "N", "G">>]]

NoSnapshot == [t |-> "none"]

InitLogging ==
    /\ \E l \in Launches : sys_argv = l.argv /\ os_environ = l.environ
    /\ _INIT_COMPLETE = FALSE
    /\ _INIT_LOCK = 0
    /\ root = RootInit
    /\ lazies = <<>>
    /\ loggerDict = [n \in Names |-> NoRef]
    /\ pc = [t \in Threads |-> "idle"]
    /\ this = [t \in Threads |-> NoRef]
    /\ rec = [t \in Threads |-> 0]
    /\ seenLevel = [t \in Threads |-> 0]
    /\ role = [t \in Threads |-> "none"]
    /\ sunk = {}
    /\ initRuns = 0
    /\ requests = {}
    /\ probed = {}
    /\ cfgFirst = NoSnapshot
    /\ emits = 0
    /\ configs = 0

Init ==
    /\ InitLogging
    /\ value = PyNone
    /\ default_value = PyNone
    /\ parsed = PyNone

\* ------------------------------------------------------------ logger()
\* logging.getLogger(name): the registered object, created on first request
getLogger(name) ==
    IF loggerDict[name] # NoRef THEN loggerDict[name] ELSE Reg(name)

ReturnsLazy_Always == TRUE
\* line 127: _LazyLogger(name) if not _INIT_COMPLETE else logging.getLogger(name)
ReturnsLazy == ~_INIT_COMPLETE

\* _LazyLogger.__init__, lines 57-59; inv and selfErrs are history: the state
\* of the first handle() call, and the ValueErrors of line 75 raised so far
NewLazy(name) ==
    [name |-> name, _handler |-> NoRef, inv |-> "none", selfErrs |-> 0]

logger(name) ==
    /\ IF ReturnsLazy
       THEN /\ Len(lazies) < MaxLazy
            /\ lazies' = Append(lazies, NewLazy(name))
            /\ requests' = requests \cup
                    {[name |-> name, obj |-> LazyRef(Len(lazies) + 1),
                      post |-> _INIT_COMPLETE]}
            /\ UNCHANGED loggerDict
       ELSE /\ loggerDict' = [loggerDict EXCEPT ![name] = getLogger(name)]
            /\ requests' = requests \cup
                    {[name |-> name, obj |-> getLogger(name), post |-> _INIT_COMPLETE]}
            /\ UNCHANGED lazies
    /\ UNCHANGED <<sys_argv, os_environ, _INIT_COMPLETE, _INIT_LOCK, root, pc,
                   this, rec, role, sunk, initRuns, probed, cfgFirst, emits,
                   configs, parseVars, seenLevel>>

\* the objects the application holds
Handles == {r.obj : r \in requests}

IsLazy(h) == h.k = "lazy"

\* ------------------------------------------------- Logger.isEnabledFor
\* Logger.getEffectiveLevel: the first non-zero level up the parent chain.  A
\* _LazyLogger is built outside the manager and has no parent; a registered
\* logger's chain ends at the root.
getEffectiveLevel(h) == IF IsLazy(h) THEN 0 ELSE root.level

\* Logger.isEnabledFor with manager.disable = 0
isEnabledFor(h, level) == ~(0 >= level) /\ level >= getEffectiveLevel(h)

\* the application calls h.isEnabledFor(level) and nothing else
IsEnabledFor(h) ==
    /\ emits < MaxEmits
    /\ emits' = emits + 1
    /\ probed' = probed \cup {h}
    /\ UNCHANGED <<sys_argv, os_environ, _INIT_COMPLETE, _INIT_LOCK, root, lazies,
                   loggerDict, pc, this, rec, role, sunk, initRuns, requests,
                   cfgFirst, configs, parseVars, seenLevel>>

\* ---------------------------------------- Logger.log and the handlers
\* a thread returns from log()
Return(t) ==
    /\ pc' = [pc EXCEPT ![t] = "idle"]
    /\ this' = [this EXCEPT ![t] = NoRef]
    /\ rec' = [rec EXCEPT ![t] = 0]
    /\ seenLevel' = [seenLevel EXCEPT ![t] = 0]
    /\ role' = [role EXCEPT ![t] = "none"]

\* the first handle() call on a _LazyLogger is marked as returned
MarkReturned(t) ==
    IF role[t] = "first" THEN [lazies EXCEPT ![this[t].id].inv = "returned"]
    ELSE lazies

\* Logger.log(level, msg): isEnabledFor(level), then self.handle(record)
Log(t, h, level) ==
    /\ pc[t] = "idle"
    /\ emits < MaxEmits
    /\ emits' = emits + 1
    /\ IF isEnabledFor(h, level)
       THEN /\ pc' = [pc EXCEPT ![t] = IF IsLazy(h) THEN "L66" ELSE "handle"]
            /\ this' = [this EXCEPT ![t] = h]
            /\ rec' = [rec EXCEPT ![t] = level]
            /\ seenLevel' = [seenLevel EXCEPT ![t] = root.level]
            /\ role' = [role EXCEPT ![t] =
                    IF ~IsLazy(h) THEN "none"
                    ELSE IF lazies[h.id].inv = "none" THEN "first"
                    ELSE IF lazies[h.id].inv = "returned" THEN "later"
                    ELSE "other"]
            /\ lazies' = IF IsLazy(h) /\ lazies[h.id].inv = "none"
                         THEN [lazies EXCEPT ![h.id].inv = "running"]
                         ELSE lazies
       ELSE UNCHANGED <<pc, this, rec, role, lazies, seenLevel>>
    /\ UNCHANGED <<sys_argv, os_environ, _INIT_COMPLETE, _INIT_LOCK, root,
                   loggerDict, sunk, initRuns, requests, probed, cfgFirst,
                   configs, parseVars>>

\* logging.lastResort: used by callHandlers when no handler was found
lastResortLevel == _nameToLevel[<<"W", "A", "R", "N", "I", "N", "G">>]

\* Logger.callHandlers on a registered logger: the root's handlers (named
\* loggers carry none), each behind its level (NOTSET) and its filter
callHandlers(levelno) ==
    IF Len(root.handlers) = 0
    THEN IF levelno >= lastResortLevel THEN {<<"lastResort", levelno>>} ELSE {}
    ELSE {<<root.handlers[i].stream, levelno>> :
            i \in {j \in DOMAIN root.handlers : _filter(root.handlers[j], levelno)}}

\* line 66: if self._handler is None
L66(t) ==
    /\ pc[t] = "L66"
    /\ pc' = [pc EXCEPT ![t] =
            IF lazies[this[t].id]._handler = NoRef THEN "L68" ELSE "L77"]
    /\ UNCHANGED <<sys_argv, os_environ, _INIT_COMPLETE, _INIT_LOCK, root, lazies,
                   loggerDict, this, rec, role, sunk, initRuns, requests, probed,
                   cfgFirst, emits, configs, parseVars, seenLevel>>

\* line 68: the unguarded test of _INIT_COMPLETE
L68(t) ==
    /\ pc[t] = "L68"
    /\ pc' = [pc EXCEPT ![t] = IF ~_INIT_COMPLETE THEN "L69" ELSE "L73"]
    /\ UNCHANGED <<sys_argv, os_environ, _INIT_COMPLETE, _INIT_LOCK, root, lazies,
                   loggerDict, this, rec, role, sunk, initRuns, requests, probed,
                   cfgFirst, emits, configs, parseVars, seenLevel>>

\* line 69: with _INIT_LOCK (acquire)
L69(t) ==
    /\ pc[t] = "L69"
    /\ _INIT_LOCK = 0
    /\ _INIT_LOCK' = t
    /\ pc' = [pc EXCEPT ![t] = "L70"]
    /\ UNCHANGED <<sys_argv, os_environ, _INIT_COMPLETE, root, lazies, loggerDict,
                   this, rec, role, sunk, initRuns, requests, probed, cfgFirst,
                   emits, configs, parseVars, seenLevel>>

\* lines 71 and 72 exchanged: the flag is set before the configuration runs
L70_FlagFirst(t) ==
    /\ pc[t] = "L70"
    /\ IF ~_INIT_COMPLETE
       THEN /\ pc' = [pc EXCEPT ![t] = "L71"]
            /\ _INIT_COMPLETE' = TRUE
            /\ UNCHANGED _INIT_LOCK
       ELSE /\ pc' = [pc EXCEPT ![t] = "L73"]
            /\ _INIT_LOCK' = 0
            /\ UNCHANGED _INIT_COMPLETE
    /\ UNCHANGED <<sys_argv, os_environ, root, lazies, loggerDict,
                   this, rec, role, sunk, initRuns, requests, probed, cfgFirst,
                   emits, configs, parseVars, seenLevel>>

\* line 70: the test repeated under the lock; when it fails the with block
\* is left and the lock released
L70(t) ==
    /\ pc[t] = "L70"
    /\ IF ~_INIT_COMPLETE
       THEN /\ pc' = [pc EXCEPT ![t] = "L71"]
            /\ UNCHANGED _INIT_LOCK
       ELSE /\ pc' = [pc EXCEPT ![t] = "L73"]
            /\ _INIT_LOCK' = 0
    /\ UNCHANGED <<sys_argv, os_environ, _INIT_COMPLETE, root, lazies, loggerDict,
                   this, rec, role, sunk, initRuns, requests, probed, cfgFirst,
                   emits, configs, parseVars, seenLevel>>

\* line 71 with the lock taken by acquire() and released by a release() that
\* follows line 72, not by a with block: an exception leaves the lock held
L71_KeepsLock(t) ==
    /\ pc[t] = "L71"
    /\ initRuns' = initRuns + 1
    /\ IF ConfigRaises(sys_argv, os_environ)
       THEN /\ lazies' = MarkReturned(t)
            /\ Return(t)
            /\ UNCHANGED <<root, _INIT_LOCK>>
       ELSE /\ root' = _logging_basic_config(root, sys_argv, os_environ)
            /\ pc' = [pc EXCEPT ![t] = "L72"]
            /\ UNCHANGED <<_INIT_LOCK, lazies, this, rec, role, seenLevel>>
    /\ UNCHANGED <<sys_argv, os_environ, _INIT_COMPLETE, loggerDict, sunk,
                   requests, probed, cfgFirst, emits, configs, parseVars>>

\* line 71: _logging_basic_config().  When it raises, the with block releases
\* the lock and the exception leaves handle(): _INIT_COMPLETE and
\* self._handler are not assigned.
L71(t) ==
    /\ pc[t] = "L71"
    /\ initRuns' = initRuns + 1
    /\ IF ConfigRaises(sys_argv, os_environ)
       THEN /\ _INIT_LOCK' = 0
            /\ lazies' = MarkReturned(t)
            /\ Return(t)
            /\ UNCHANGED root
       ELSE /\ root' = _logging_basic_config(root, sys_argv, os_environ)
            /\ pc' = [pc EXCEPT ![t] = "L72"]
            /\ UNCHANGED <<_INIT_LOCK, lazies, this, rec, role, seenLevel>>
    /\ UNCHANGED <<sys_argv, os_environ, _INIT_COMPLETE, loggerDict, sunk,
                   requests, probed, cfgFirst, emits, configs, parseVars>>

\* line 72: _INIT_COMPLETE = True
L72(t) ==
    /\ pc[t] = "L72"
    /\ _INIT_COMPLETE' = TRUE
    /\ pc' = [pc EXCEPT ![t] = "L72x"]
    /\ UNCHANGED <<sys_argv, os_environ, _INIT_LOCK, root, lazies, loggerDict,
                   this, rec, role, sunk, initRuns, requests, probed, cfgFirst,
                   emits, configs, parseVars, seenLevel>>

\* the end of the with block of line 69: the lock is released
L72x(t) ==
    /\ pc[t] = "L72x"
    /\ _INIT_LOCK' = 0
    /\ pc' = [pc EXCEPT ![t] = "L73"]
    /\ UNCHANGED <<sys_argv, os_environ, _INIT_COMPLETE, root, lazies, loggerDict,
                   this, rec, role, sunk, initRuns, requests, probed, cfgFirst,
                   emits, configs, parseVars, seenLevel>>

\* lines 73-76 without the test of line 74
L73_NoSelfTest(t) ==
    /\ pc[t] = "L73"
    /\ LET name == lazies[this[t].id].name
           handler == getLogger(name)
       IN  /\ loggerDict' = [loggerDict EXCEPT ![name] = handler]
           /\ lazies' = [lazies EXCEPT ![this[t].id]._handler = handler]
           /\ pc' = [pc EXCEPT ![t] = "L77"]
           /\ UNCHANGED <<this, rec, role, seenLevel>>
    /\ UNCHANGED <<sys_argv, os_environ, _INIT_COMPLETE, _INIT_LOCK, root, sunk,
                   initRuns, requests, probed, cfgFirst, emits, configs, parseVars>>

\* lines 73-76: handler = logging.getLogger(self.name); a handler that is
\* self raises ValueError, any other is stored in self._handler
L73(t) ==
    /\ pc[t] = "L73"
    /\ LET name == lazies[this[t].id].name
           handler == getLogger(name)
       IN  /\ loggerDict' = [loggerDict EXCEPT ![name] = handler]
           /\ IF handler = this[t]
              THEN /\ lazies' = [MarkReturned(t) EXCEPT ![this[t].id].selfErrs = @ + 1]
                   /\ Return(t)
              ELSE /\ lazies' = [lazies EXCEPT ![this[t].id]._handler = handler]
                   /\ pc' = [pc EXCEPT ![t] = "L77"]
                   /\ UNCHANGED <<this, rec, role, seenLevel>>
    /\ UNCHANGED <<sys_argv, os_environ, _INIT_COMPLETE, _INIT_LOCK, root, sunk,
                   initRuns, requests, probed, cfgFirst, emits, configs, parseVars>>

\* line 77: self._handler.handle(record).  The delegate is the registered
\* object: for a logging.Logger its handle is callHandlers(record); for a
\* _LazyLogger the thread enters that object's handle() at line 66, and as
\* nothing follows line 77 the outer call is closed here.
L77(t) ==
    /\ pc[t] = "L77"
    /\ LET delegate == lazies[this[t].id]._handler
       IN  IF IsLazy(delegate)
           THEN /\ pc' = [pc EXCEPT ![t] = "L66"]
                /\ this' = [this EXCEPT ![t] = delegate]
                /\ role' = [role EXCEPT ![t] =
                        IF lazies[delegate.id].inv = "none" THEN "first"
                        ELSE IF lazies[delegate.id].inv = "returned" THEN "later"
                        ELSE "other"]
                /\ lazies' = [MarkReturned(t) EXCEPT ![delegate.id].inv =
                                  IF @ = "none" THEN "running" ELSE @]
                /\ UNCHANGED <<rec, sunk, seenLevel>>
           ELSE /\ sunk' = sunk \cup callHandlers(rec[t])
                /\ lazies' = MarkReturned(t)
                /\ Return(t)
    /\ UNCHANGED <<sys_argv, os_environ, _INIT_COMPLETE, _INIT_LOCK, root,
                   loggerDict, initRuns, requests, probed, cfgFirst, emits,
                   configs, parseVars>>

\* Logger.handle of a logger that logger() returned from the registry
Handle(t) ==
    /\ pc[t] = "handle"
    /\ sunk' = sunk \cup callHandlers(rec[t])
    /\ Return(t)
    /\ UNCHANGED <<sys_argv, os_environ, _INIT_COMPLETE, _INIT_LOCK, root, lazies,
                   loggerDict, initRuns, requests, probed, cfgFirst, emits,
                   configs, parseVars>>

\* ------------------------------- the application's logging.basicConfig
UserHandlers == <<UserHandler("user")>>

ConfigureOptions ==
    [level : {PyInt(_nameToLevel[<<"E", "R", "R", "O", "R">>])},
     handlers : {PyNone, [t |-> "list", list |-> UserHandlers],
                 [t |-> "list", list |-> <<>>]},
     force : BOOLEAN]

Configure(kw) ==
    /\ configs < MaxConfigure
    /\ configs' = configs + 1
    /\ root' = basicConfig(root, kw)
    /\ cfgFirst' = IF initRuns = 0 /\ Len(basicConfig(root, kw).handlers) > 0
                   THEN [t |-> "snapshot", root |-> basicConfig(root, kw)]
                   ELSE NoSnapshot
    /\ UNCHANGED <<sys_argv, os_environ, _INIT_COMPLETE, _INIT_LOCK, lazies,
                   loggerDict, pc, this, rec, role, sunk, initRuns, requests,
                   probed, emits, parseVars, seenLevel>>

Next ==
    \/ \E n \in Names : logger(n)
    \/ \E h \in Handles : IsEnabledFor(h)
    \/ \E t \in Threads, h \in Handles, l \in Severities : Log(t, h, l)
    \/ \E t \in Threads : L66(t)
    \/ \E t \in Threads : L68(t)
    \/ \E t \in Threads : L69(t)
    \/ \E t \in Threads : L70(t)
    \/ \E t \in Threads : L71(t)
    \/ \E t \in Threads : L72(t)
    \/ \E t \in Threads : L72x(t)
    \/ \E t \in Threads : L73(t)
    \/ \E t \in Threads : L77(t)
    \/ \E t \in Threads : Handle(t)
    \/ \E kw \in ConfigureOptions : Configure(kw)

Spec == Init /\ [][Next]_vars

\* a step of thread t inside Logger.handle / _LazyLogger.handle
Step(t) ==
    \/ L66(t) \/ L68(t) \/ L69(t) \/ L70(t) \/ L71(t) \/ L72(t) \/ L72x(t)
    \/ L73(t) \/ L77(t) \/ Handle(t)

\* the threads' emits alone: the application obtains loggers and logs, and
\* calls neither isEnabledFor nor logging.basicConfig, which touch neither a
\* thread's place in handle() nor the lock
NextGate ==
    \/ \E n \in Names : logger(n)
    \/ \E t \in Threads, h \in Handles, l \in Severities : Log(t, h, l)
    \/ \E t \in Threads : Step(t)

\* every thread that can take a step of handle() eventually takes one; the
\* application is free to stop calling
FairGate == Init /\ [][NextGate]_vars /\ \A t \in Threads : WF_vars(Step(t))

\* --------------------------------- a _LazyLogger put into the registry
\* the application stores the i-th _LazyLogger in the manager's loggerDict
\* under its own name, where no logger is registered yet: the condition
\* line 74 tests for
RegisterSelf(i) ==
    /\ loggerDict[lazies[i].name] = NoRef
    /\ loggerDict' = [loggerDict EXCEPT ![lazies[i].name] = LazyRef(i)]
    /\ UNCHANGED <<sys_argv, os_environ, _INIT_COMPLETE, _INIT_LOCK, root, lazies,
                   pc, this, rec, role, sunk, initRuns, requests, probed,
                   cfgFirst, emits, configs, parseVars, seenLevel>>

NextSelfReg ==
    \/ Next
    \/ \E i \in DOMAIN lazies : RegisterSelf(i)

SpecSelfReg == Init /\ [][NextSelfReg]_vars

\* ------------------------------------------- the level parser on its own
ParseValues ==
    {PyNone}
    \cup {PyInt(n) : n \in -1 .. MaxLevelNo}
    \cup {PyStr(StrOfInt(n)) : n \in -1 .. MaxLevelNo}
    \cup {PyStr(s) : s \in {<<"W", "A", "R", "N", "I", "N", "G">>,
                            <<"w", "a", "r", "n">>, <<"i", "N", "f", "O">>,
                            <<"I", "N", "V", "A", "L", "I", "D">>, <<>>}}

ParseDefaults ==
    {_UNSET, PyNone, PyInt(INFO), PyInt(MaxLevelNo),
     PyStr(<<"d", "e", "b", "u", "g">>)}

Pending == [t |-> "pending"]

InitLevel ==
    /\ InitLogging
    /\ sys_argv = <<Str_prog>>
    /\ value \in ParseValues
    /\ default_value \in ParseDefaults
    /\ parsed = Pending

Parse ==
    /\ parsed = Pending
    /\ parsed' = get(value, default_value)
    /\ UNCHANGED <<loggingVars, value, default_value>>

SpecLevel == InitLevel /\ [][Parse]_vars

\* ------------------------- _logging_basic_config over the level inputs
\* the texts given as a level: a name, a registered number, an unknown
\* word, and the one-character string U+00B2
LevelTexts ==
    {<<"d", "e", "b", "u", "g">>, <<"i", "n", "f", "o">>, <<"4", "0">>,
     <<"b", "o", "g", "u", "s">>, <<SuperscriptTwo>>}

\* a level input is absent (None) or one of the texts
LevelInputs == {PyNone} \cup {PyStr(s) : s \in LevelTexts}

\* sys.argv with "--log-level <text>", or without the option
ArgvOf(v) ==
    IF v = PyNone THEN <<Str_prog>>
    ELSE <<Str_prog, LOG_LEVEL_SYS_ARG_NAME, v.s>>

\* os.environ with LOG_LEVEL set to the text, or unset
EnvironOf(v) == [NoEnviron EXCEPT !.LOG_LEVEL = v]

InitConfig ==
    /\ \E a \in LevelInputs, e \in LevelInputs :
            sys_argv = ArgvOf(a) /\ os_environ = EnvironOf(e)
    /\ _INIT_COMPLETE = FALSE
    /\ _INIT_LOCK = 0
    /\ root = RootInit
    /\ lazies = <<>>
    /\ loggerDict = [n \in Names |-> NoRef]
    /\ pc = [t \in Threads |-> "idle"]
    /\ this = [t \in Threads |-> NoRef]
    /\ rec = [t \in Threads |-> 0]
    /\ seenLevel = [t \in Threads |-> 0]
    /\ role = [t \in Threads |-> "none"]
    /\ sunk = {}
    /\ initRuns = 0
    /\ requests = {}
    /\ probed = {}
    /\ cfgFirst = NoSnapshot
    /\ emits = 0
    /\ configs = 0
    /\ value = PyNone
    /\ default_value = PyNone
    /\ parsed = PyNone

\* lines 71-72 run by the one thread that finds _INIT_COMPLETE unset: when
\* _logging_basic_config raises, line 72 is not reached
Initialize ==
    /\ initRuns = 0
    /\ initRuns' = 1
    /\ IF ConfigRaises(sys_argv, os_environ)
       THEN UNCHANGED <<root, _INIT_COMPLETE>>
       ELSE /\ root' = _logging_basic_config(root, sys_argv, os_environ)
            /\ _INIT_COMPLETE' = TRUE
    /\ UNCHANGED <<sys_argv, os_environ, _INIT_LOCK, lazies, loggerDict, pc,
                   this, rec, role, sunk, requests, probed, cfgFirst, emits,
                   configs, parseVars, seenLevel>>

\* a record of the given severity is handed to the root's handlers
Emit(levelno) ==
    /\ _INIT_COMPLETE
    /\ sunk' = sunk \cup callHandlers(levelno)
    /\ UNCHANGED <<sys_argv, os_environ, _INIT_COMPLETE, _INIT_LOCK, root, lazies,
                   loggerDict, pc, this, rec, role, initRuns, requests, probed,
                   cfgFirst, emits, configs, parseVars, seenLevel>>

NextConfig ==
    \/ Initialize
    \/ \E s \in Severities : Emit(s)

SpecConfig == InitConfig /\ [][NextConfig]_vars

\* ------------------------------------------------------------- claims
Raises == ConfigRaises(sys_argv, os_environ)

InGate(t) == pc[t] \in {"L68", "L69", "L70", "L71", "L72", "L72x"}

\* C1 (as stated): _logging_basic_config runs at most once in the process,
\* and exactly once as soon as a first handle() call on a _LazyLogger has
\* returned.
C1_InitRunsExactlyOnce ==
    /\ initRuns <= 1
    /\ (\E i \in DOMAIN lazies : lazies[i].inv = "returned") => initRuns = 1

\* C2: when the application's basicConfig left at least one handler on the
\* root before _logging_basic_config ever ran, the root keeps exactly those
\* handlers and that level through every later use of a logger, and none
\* of the handlers is a default one.
C2_ConfigureFirstKept ==
    cfgFirst # NoSnapshot =>
        /\ root = cfgFirst.root
        /\ \A i \in DOMAIN root.handlers : ~IsDefaultHandler(root.handlers[i])

\* C2 witness: the application configured first, the lazy initialization
\* then ran to completion and a record reached the application's handler.
C2_Witness ==
    /\ cfgFirst # NoSnapshot
    /\ _INIT_COMPLETE
    /\ initRuns = 1
    /\ \E p \in sunk : p[1] = "user"

\* the root carries exactly the two handlers _logging_basic_config builds
DefaultsInstalled ==
    ~Raises /\ root.handlers = DefaultHandlers(log_level_no(sys_argv, os_environ))

\* C3 (as stated): with the default handlers on the root, a basicConfig call
\* that names a handler list leaves exactly that list on the root, whatever
\* its force option.
C3_ConfigureAfterReplaces ==
    [][\A kw \in ConfigureOptions :
         (DefaultsInstalled /\ kw.handlers # PyNone /\ Configure(kw))
            => root'.handlers = kw.handlers.list]_vars

\* C4 (as stated): two logger() calls with the same name return the same
\* object.
C4_SameNameSameHandle ==
    \A r1, r2 \in requests : r1.name = r2.name => r1.obj = r2.obj

\* C5 (as stated): once isEnabledFor has been called on a _LazyLogger, the
\* global initialization has been triggered.
C5_PredicateTriggersInit ==
    \A h \in probed : IsLazy(h) => initRuns >= 1

\* C6: a thread that is about to hand its record to the handlers through a
\* _LazyLogger (line 77) finds _INIT_COMPLETE set and _logging_basic_config
\* run and no longer running.
C6_NoDeliveryBeforeInit ==
    \A t \in Threads :
        pc[t] = "L77" =>
            /\ _INIT_COMPLETE
            /\ initRuns >= 1
            /\ \A u \in Threads : pc[u] \notin {"L71", "L72"}

\* C6 witness: a thread is at line 77 after the fast test of line 68, while
\* the thread that ran the configuration has set the flag and still holds
\* the lock.
C6_Witness ==
    \E t, u \in Threads : pc[t] = "L77" /\ pc[u] = "L72x" /\ _INIT_LOCK = u

\* C7: an object logger() returned after _INIT_COMPLETE was set is a
\* registered logging.Logger, and a thread calling it is never inside the
\* gate of _LazyLogger.handle.
C7_PostInitPlain ==
    \A r \in requests :
        r.post =>
            /\ ~IsLazy(r.obj)
            /\ \A t \in Threads : this[t] = r.obj => pc[t] = "handle"

\* C7 witness: a thread is handling a record on a logger obtained after the
\* initialization.
C7_Witness ==
    \E r \in requests, t \in Threads :
        r.post /\ this[t] = r.obj /\ pc[t] = "handle" /\ initRuns = 1

\* what get returns for "not found", written out for the defaults tried
ExpectedNotFound(d) ==
    CASE d = PyNone -> PyNone
      [] d = _UNSET -> Raised
      [] d = PyInt(INFO) -> LogLevel(<<"I", "N", "F", "O">>, 20)
      [] d = PyInt(MaxLevelNo) -> Raised
      [] d = PyStr(<<"d", "e", "b", "u", "g">>) -> LogLevel(<<"D", "E", "B", "U", "G">>, 10)

\* the numeric values tried: integers and their decimal strings
NumberOf(v) ==
    IF v.t = "int" THEN v.n
    ELSE CHOOSE n \in -1 .. MaxLevelNo + 1 : v.s = StrOfInt(n)

IsNumeric(v) ==
    \/ v.t = "int"
    \/ v.t = "str" /\ \E n \in -1 .. MaxLevelNo + 1 : v.s = StrOfInt(n)

\* C8: the decimal string of a registered severity n parses to the Level the
\* canonical name of n parses to, (name of n, n); a number without a
\* registered name parses to "not found": None with default None, an error
\* with no default, the parsed default otherwise.
C8_NumericParse ==
    (parsed # Pending /\ IsNumeric(value)) =>
        IF NumberOf(value) \in DOMAIN _levelToName
        THEN /\ parsed = LogLevel(_levelToName[NumberOf(value)], NumberOf(value))
             /\ parsed = get(PyStr(_levelToName[NumberOf(value)]), default_value)
        ELSE parsed = ExpectedNotFound(default_value)

\* C8 witness: "30" was parsed and gave WARNING, and an unregistered number
\* was parsed with a default
C8_Witness ==
    /\ value = PyStr(<<"3", "0">>)
    /\ parsed = LogLevel(<<"W", "A", "R", "N", "I", "N", "G">>, 30)

\* C9 (as stated): when _logging_basic_config has raised, _INIT_COMPLETE is
\* set and the configuration is never run a second time.
C9_FailedInitCountsAsDone ==
    (Raises /\ initRuns >= 1) => (_INIT_COMPLETE /\ initRuns = 1)

\* C10 (as stated): a handle() call that starts after the first handle()
\* call on the same _LazyLogger has returned never enters the gate.
C10_LaterCallsSkipGate ==
    \A t \in Threads : role[t] = "later" => ~InGate(t)

\* the handlers of the root that accept a record of severity s
Accepting(s) == {p[1] : p \in callHandlers(s)}

\* C11 (as stated): with the default handlers installed for the threshold
\* T, stdout accepts a record of severity s iff s >= T and s <= INFO, and
\* stderr accepts it iff s >= T and s > INFO.
C11_BandsSplitAtInfo ==
    _INIT_COMPLETE =>
        \A s \in Severities :
            /\ "stdout" \in Accepting(s) <=> (s >= root.level /\ s <= INFO)
            /\ "stderr" \in Accepting(s) <=> (s >= root.level /\ s > INFO)

\* C11 (amended): with the default handlers installed for the threshold T,
\* stdout accepts a record of severity s iff s >= T and s = INFO, stderr
\* accepts it iff s >= T and s # INFO, a record with s < T is accepted by
\* neither, and every record written went to the stream so determined.
C11_InfoAloneToStdout ==
    _INIT_COMPLETE =>
        /\ \A s \in Severities :
              /\ "stdout" \in Accepting(s) <=> (s >= root.level /\ s = INFO)
              /\ "stderr" \in Accepting(s) <=> (s >= root.level /\ s # INFO)
              /\ s < root.level => Accepting(s) = {}
        /\ \A p \in sunk :
              /\ p[2] >= root.level
              /\ p[1] = (IF p[2] = INFO THEN "stdout" ELSE "stderr")

\* C11 witness: with the threshold DEBUG, a DEBUG record was written to
\* stderr and an INFO record to stdout.
C11_Witness ==
    /\ _INIT_COMPLETE
    /\ root.level = 10
    /\ <<"stderr", 10>> \in sunk
    /\ <<"stdout", INFO>> \in sunk

\* the i-th _LazyLogger is the registry's entry for its own name
SelfRegistered(lz, dict, i) == dict[lz[i].name] = LazyRef(i)

\* C12: a thread at line 73 on a _LazyLogger that is the registry's entry
\* for its own name leaves handle() from there with the ValueError of line
\* 75: nothing is written to a handler and self._handler stays None; and a
\* _LazyLogger registered under its own name never holds a delegate, so
\* each later handle() call on it comes to line 73 again.
C12_SelfRegisteredRaises ==
    [][/\ \A t \in Threads :
            (/\ pc[t] = "L73"
             /\ SelfRegistered(lazies, loggerDict, this[t].id)
             /\ L73(t))
                => /\ pc'[t] = "idle"
                   /\ sunk' = sunk
                   /\ lazies'[this[t].id]._handler = NoRef
                   /\ lazies'[this[t].id].selfErrs = lazies[this[t].id].selfErrs + 1
       /\ \A i \in DOMAIN lazies' :
            SelfRegistered(lazies', loggerDict', i) => lazies'[i]._handler = NoRef]_vars

\* C12 witness: two handle() calls on a _LazyLogger registered under its own
\* name have both raised the ValueError, nothing was written, and it holds
\* no delegate.
C12_Witness ==
    \E i \in DOMAIN lazies :
        /\ SelfRegistered(lazies, loggerDict, i)
        /\ lazies[i].selfErrs = 2
        /\ lazies[i]._handler = NoRef
        /\ sunk = {}

\* the text that follows --log-level on the command line, None without it
GivenArg == IF Len(sys_argv) = 3 THEN PyStr(sys_argv[3]) ELSE PyNone

\* the severity a level input stands for, written out for the inputs tried;
\* -1 for an absent or malformed one
ValidLevel(v) ==
    CASE v = PyStr(<<"d", "e", "b", "u", "g">>) -> 10
      [] v = PyStr(<<"i", "n", "f", "o">>) -> 20
      [] v = PyStr(<<"4", "0">>) -> 40
      [] OTHER -> -1

\* command line first, then environment, then INFO
ExpectedThreshold ==
    IF ValidLevel(GivenArg) >= 0 THEN ValidLevel(GivenArg)
    ELSE IF ValidLevel(os_environ.LOG_LEVEL) >= 0 THEN ValidLevel(os_environ.LOG_LEVEL)
    ELSE INFO

\* C13 (as stated): for every combination of an absent, valid or malformed
\* level on the command line and in the environment, the global
\* initialization, once run, has completed without raising, and the root
\* level and both handler thresholds are the command line's level when that
\* is valid, else the environment's when that is valid, else INFO.
C13_InitNeverRaises ==
    initRuns >= 1 =>
        /\ _INIT_COMPLETE
        /\ root.level = ExpectedThreshold
        /\ \A i \in DOMAIN root.handlers : root.handlers[i].thr = ExpectedThreshold

\* C14 (as stated): whenever a thread's record is written to a handler,
\* through a _LazyLogger (line 77) or through a logger obtained after the
\* initialization, its severity is at or above the level the root logger
\* has at that moment, unless that level was changed after the thread's
\* log() call began.
C14_ThresholdObeyed ==
    [][\A t \in Threads :
         (/\ L77(t) \/ Handle(t)
          /\ callHandlers(rec[t]) # {}
          /\ root.level = seenLevel[t])
            => rec[t] >= root.level]_vars

\* the thread is inside _LazyLogger.handle
InHandle(t) == pc[t] \in {"L66", "L68", "L69", "L70", "L71", "L72", "L72x", "L73", "L77"}

\* C15: under weak fairness of each thread's steps, a thread that is inside
\* _LazyLogger.handle eventually leaves it, whether it runs
\* _logging_basic_config, waits for _INIT_LOCK or finds _INIT_COMPLETE set,
\* and also when _logging_basic_config raises.
C15_EveryEmitReturns ==
    \A t \in Threads : InHandle(t) ~> (pc[t] = "idle")

\* C15 witness: _logging_basic_config has raised in one thread, which has
\* left handle(), while another thread waits at line 69 and the lock is free.
C15_Witness ==
    \E t, u \in Threads :
        /\ Raises
        /\ initRuns >= 1
        /\ pc[u] = "idle"
        /\ pc[t] = "L69"
        /\ _INIT_LOCK = 0

====
